---- MODULE Spec2Model ----
(***************************************************************************)
(* RantVent: the audio post-processing pipeline.                           *)
(*                                                                         *)
(* The persisted Post and Comment rows, the background runs                *)
(* process_post_audio and process_comment_audio (app/workers/tasks.py),    *)
(* the services they call (PostService, CommentService,                    *)
(* CommentGeminiService, GeminiService.parse_output) and the request       *)
(* handlers that create rows and schedule runs; the voice anonymizer, the   *)
(* transcription client and the communities with their memberships.        *)
(*                                                                         *)
(* One action is one await point of a run: a database round trip or an     *)
(* external call.  Every database call and every external call either      *)
(* returns or raises; a commit that raises persists nothing.               *)
(***************************************************************************)
EXTENDS Integers, Sequences, FiniteSets

\* ------------------------------------------------------------------ bounds
MaxPosts == 2
MaxComments == 1
MaxReruns == 1
MaxCalls == 2
MaxUsers == 2

\* highest valid preset index (voice_anonymizer.py: 1 <= preset_index <= 6)
NumPresets == 6

PostIds == 1..MaxPosts
CommentIds == 1..MaxComments

\* the presets tried: the no-op, a valid one, and (for a direct call of the
\* worker, which validates nothing) one past the range
Presets == {0, 1}
AnyPreset == {0, 1, NumPresets + 1}

\* ------------------------------------------------------------------- text
\* A text is a sequence of characters; a nullable column is <<>> (NULL) or
\* <<t>> (the text t).
Null == <<>>
Just(t) == <<t>>
IsNull(v) == v = Null
Empty == <<>>

\* the characters str.strip() removes: the blank and the line break
Whitespace == {" ", "\n"}

RECURSIVE lstrip(_)
lstrip(s) == IF s # <<>> /\ Head(s) \in Whitespace THEN lstrip(Tail(s)) ELSE s

RECURSIVE rstrip(_)
rstrip(s) ==
    IF s # <<>> /\ s[Len(s)] \in Whitespace
    THEN rstrip(SubSeq(s, 1, Len(s) - 1)) ELSE s

strip(s) == rstrip(lstrip(s))

\* ------------------------------------------------- GeminiService.parse_output
Keys == {"TRANSCRIPT", "SUMMARY", "TLDR", "LANGUAGE"}

\* What the service can answer in primary mode.  A JSON object is given by
\* the keys it lacks and whether its values are strings; a present string
\* value is written with surrounding blanks.
RawValue == <<" ", "a", " ">>

\* the sets of keys a response is tried without: none, the summary, all
Absences == {{}, {"SUMMARY"}, Keys}

Responses ==
    [kind : {"json"}, absent : Absences, strings : BOOLEAN]
    \cup [kind : {"text"}, absent : Absences, strings : {TRUE}]
    \cup [kind : {"empty"}, absent : {{}}, strings : {TRUE}]

\* data.get(key, "").strip() for a JSON object; the block of a marker for
\* line-oriented text (block[key] += line + " ", stripped at the end)
JsonField(resp, key) == IF key \in resp.absent THEN Empty ELSE strip(RawValue)
TextField(resp, key) ==
    IF key \in resp.absent THEN Empty ELSE strip(strip(RawValue) \o <<" ">>)

\* parse_output raises when .strip() is applied to a value that is no string
ParseRaises(resp) ==
    resp.kind = "json" /\ ~resp.strings /\ resp.absent # Keys

parse_output(resp) ==
    IF resp.kind = "json"
    THEN [transcript |-> JsonField(resp, "TRANSCRIPT"),
          summary    |-> JsonField(resp, "SUMMARY"),
          tldr       |-> JsonField(resp, "TLDR"),
          language   |-> JsonField(resp, "LANGUAGE")]
    ELSE [transcript |-> TextField(resp, "TRANSCRIPT"),
          summary    |-> TextField(resp, "SUMMARY"),
          tldr       |-> TextField(resp, "TLDR"),
          language   |-> TextField(resp, "LANGUAGE")]

\* ------------------------------------------------------------------ state
VARIABLES
    user,       \* the submitting user still exists
    posts,      \* persisted Post rows: id -> row, for the ids that exist
    task,       \* the process_post_audio run of each post id
    comments,   \* persisted Comment rows
    ctask,      \* the comment pipeline run of each comment id
    fs,         \* the media directory: path -> content, for the files that exist
    acall,      \* the VoiceAnonymizer.anonymize calls
    gcall,      \* the call of the transcription client and the remote file store
    parse,      \* the parse_output call: the raw response and its result
    communities,   \* persisted Community rows
    members,       \* persisted CommunityMembership rows: <<community, user>> -> row
    lastop         \* the last community operation and how it ended

\* the state of the components called by the pipelines, and the communities
others == <<fs, acall, gcall, parse, communities, members, lastop>>

\* the posts, the comments and what their pipelines call
pipelines == <<user, posts, task, comments, ctask, fs, acall, gcall, parse>>

vars == <<user, posts, task, comments, ctask, fs, acall, gcall, parse,
          communities, members, lastop>>

RawPath(p) == <<"raw", p>>
AnonPath(p, k) == <<"anon", p, k>>

NoResult == [transcript |-> Empty, summary |-> Empty, tldr |-> Empty, language |-> Empty]

\* Post(...) as PostService.create_post builds it
NewPost(audio_path) ==
    [status |-> "PROCESSING", audio_path |-> audio_path,
     transcript |-> Null, summary |-> Null, tldr |-> Null, language |-> Null]

IdleTask ==
    [pc |-> "idle", preset |-> 0, anon_path |-> Null, original_audio |-> Null,
     mem_status |-> "PROCESSING", result |-> NoResult, found |-> FALSE,
     raised_in |-> "none", escaped |-> FALSE,
     anon_calls |-> 0, gemini_calls |-> 0, outputs |-> 0, runs |-> 0]

Exists(p) == p \in DOMAIN posts

\* (an UPDATE that is not restricted to one id)
SetEveryPost(p, row) == [q \in DOMAIN posts |-> row]

\* the row written by an UPDATE of one Post
SetPost(p, row) == [posts EXCEPT ![p] = row]

\* (a run scheduled with the no-op preset, whatever was submitted)
ScheduledPlain(t, preset) ==
    [t EXCEPT !.pc = "scheduled", !.preset = 0, !.runs = t.runs + 1]

\* asyncio.create_task(process_post_audio(post.id, anonymize_mode))
Scheduled(t, preset) ==
    [t EXCEPT !.pc = "scheduled", !.preset = preset, !.anon_path = Null,
              !.original_audio = Null, !.mem_status = "PROCESSING",
              !.result = NoResult, !.found = FALSE, !.raised_in = "none",
              !.escaped = FALSE, !.anon_calls = 0, !.gemini_calls = 0,
              !.runs = t.runs + 1]

\* (an exception of step `step` that nothing catches would end the run)
Uncaught(t, step) == [t EXCEPT !.pc = "done", !.raised_in = step]

\* (a failed anonymizer or transcription call that is made again)
CaughtAgain(t, step) ==
    [t EXCEPT !.pc = IF step \in {"anonymize", "transcribe"} THEN step
                     ELSE "mark_failed",
              !.raised_in = step]

\* the except branch of process_post_audio is entered from step `step`
Caught(t, step) == [t EXCEPT !.pc = "mark_failed", !.raised_in = step]

\* --------------------------------------------------- api/posts.py create_post
\* The handler saves the upload, commits the new Post (PostService.create_post:
\* add, commit, refresh) and then schedules the run.  A commit that raises
\* leaves nothing behind; a refresh that raises leaves the row without a run.
create_post(p, preset) ==
    /\ user
    /\ p = Cardinality(DOMAIN posts) + 1
    /\ p \in PostIds
    /\ preset \in 0..NumPresets
    /\ posts' = [q \in DOMAIN posts \cup {p} |->
                    IF q = p THEN NewPost(Just(RawPath(p))) ELSE posts[q]]
    /\ \/ task' = [task EXCEPT ![p] = Scheduled(@, preset)]
       \/ UNCHANGED task
    /\ UNCHANGED <<user, comments, ctask>>
    /\ UNCHANGED others

\* ------------------------------------------- workers/tasks.py process_post_audio
\* `if not post or not post.audio_path: return`
NothingToDoNever(p) == FALSE

NothingToDo(p) ==
    IF ~Exists(p) THEN TRUE
    ELSE posts[p].audio_path \in {Null, Just(Empty)}

\* service.get_post(post_id) and the early return; get_post is outside the try
PostFetch(p) ==
    /\ task[p].pc = "scheduled"
    /\ \/ task' = [task EXCEPT ![p].pc = "done", ![p].escaped = TRUE]
       \/ /\ NothingToDo(p)
          /\ task' = [task EXCEPT ![p].pc = "done"]
       \/ /\ ~NothingToDo(p)
          /\ task' = [task EXCEPT ![p].found = TRUE,
                                  ![p].mem_status = IF Exists(p) THEN posts[p].status
                                                    ELSE "PROCESSING",
                                  ![p].pc = IF task[p].preset # 0 THEN "anonymize"
                                                                  ELSE "select"]
    /\ UNCHANGED <<user, posts, comments, ctask>>
    /\ UNCHANGED others

\* (a selector that is never range-checked)
PresetUnchecked(preset) == TRUE

\* VoiceAnonymizer.anonymize for a non-zero preset: raises for a preset
\* outside 1..6, otherwise transforms (which may raise) and returns a fresh
\* uniquely named output path
ValidPreset(preset) == 1 <= preset /\ preset <= NumPresets

PostAnonymize(p) ==
    /\ task[p].pc = "anonymize"
    /\ \/ /\ ValidPreset(task[p].preset)
          /\ task' = [task EXCEPT ![p].anon_calls = @ + 1,
                                  ![p].outputs = @ + 1,
                                  ![p].anon_path = Just(AnonPath(p, task[p].outputs + 1)),
                                  ![p].pc = "commit_path"]
       \/ task' = [task EXCEPT ![p] = Caught([@ EXCEPT !.anon_calls = @ + 1], "anonymize")]
    /\ UNCHANGED <<user, posts, comments, ctask>>
    /\ UNCHANGED others

\* (the run goes on to the transcription without committing the new path)
PostKeepPath(p) ==
    /\ task[p].pc = "commit_path"
    /\ task' = [task EXCEPT ![p].pc = "select"]
    /\ UNCHANGED <<user, posts, comments, ctask>>
    /\ UNCHANGED others

\* post.audio_path = anon_path; await db.commit(); await db.refresh(post)
PostCommitPath(p) ==
    /\ task[p].pc = "commit_path"
    /\ \/ /\ Exists(p)
          /\ posts' = SetPost(p, [posts[p] EXCEPT !.audio_path = task[p].anon_path])
          /\ \/ task' = [task EXCEPT ![p].pc = "select"]
             \/ task' = [task EXCEPT ![p] = Caught(@, "commit_path")]
       \/ /\ task' = [task EXCEPT ![p] = Caught(@, "commit_path")]
          /\ UNCHANGED posts
    /\ UNCHANGED <<user, comments, ctask>>
    /\ UNCHANGED others

\* (the raw upload is transcribed, whatever the preset)
PostSelectRaw(p) ==
    /\ task[p].pc = "select"
    /\ task' = [task EXCEPT ![p].original_audio = Just(RawPath(p)),
                            ![p].pc = "transcribe"]
    /\ UNCHANGED <<user, posts, comments, ctask>>
    /\ UNCHANGED others

\* the second select of the row and the choice of the file to transcribe:
\* fresh_post.audio_path if anonymize_mode == 0 else post.audio_path
PostSelect(p) ==
    /\ task[p].pc = "select"
    /\ \/ task' = [task EXCEPT ![p] = Caught(@, "select")]
       \/ /\ task[p].preset = 0
          /\ ~Exists(p)
          /\ task' = [task EXCEPT ![p] = Caught(@, "select")]
       \/ /\ task[p].preset = 0
          /\ Exists(p)
          /\ task' = [task EXCEPT ![p].original_audio = posts[p].audio_path,
                                  ![p].pc = "transcribe"]
       \/ /\ task[p].preset # 0
          /\ task' = [task EXCEPT ![p].original_audio = task[p].anon_path,
                                  ![p].pc = "transcribe"]
    /\ UNCHANGED <<user, posts, comments, ctask>>
    /\ UNCHANGED others

\* gemini_service.transcribe_romanized_full(original_audio): raises when the
\* service is unconfigured, the file is missing, the upload or the request
\* fails, the response is empty, or parse_output raises
PostTranscribe(p) ==
    /\ task[p].pc = "transcribe"
    /\ \/ task' = [task EXCEPT ![p] = Caught([@ EXCEPT !.gemini_calls = @ + 1], "transcribe")]
       \/ \E resp \in Responses :
            IF resp.kind = "empty" \/ ParseRaises(resp)
            THEN task' = [task EXCEPT ![p] = Caught([@ EXCEPT !.gemini_calls = @ + 1],
                                                    "transcribe")]
            ELSE task' = [task EXCEPT ![p].gemini_calls = @ + 1,
                                      ![p].result = parse_output(resp),
                                      ![p].pc = "update"]
    /\ UNCHANGED <<user, posts, comments, ctask>>
    /\ UNCHANGED others

\* PostService.update_transcription: the five assignments, flushed by one commit
UpdateWithoutSummary(row, r) ==
    [row EXCEPT !.transcript = Just(r.transcript), !.tldr = Just(r.tldr),
                !.language = Just(r.language), !.status = "READY"]

UpdateTranscriptionRow(row, r) ==
    [row EXCEPT !.transcript = Just(r.transcript), !.summary = Just(r.summary),
                !.tldr = Just(r.tldr), !.language = Just(r.language),
                !.status = "READY"]

update_transcription(p) ==
    /\ task[p].pc = "update"
    /\ \/ /\ Exists(p)
          /\ posts' = SetPost(p, UpdateTranscriptionRow(posts[p], task[p].result))
          /\ \/ task' = [task EXCEPT ![p].pc = "done", ![p].mem_status = "READY"]
             \/ task' = [task EXCEPT ![p] = Caught([@ EXCEPT !.mem_status = "READY"],
                                                    "refresh")]
       \/ /\ task' = [task EXCEPT ![p] = Caught(@, "update")]
          /\ UNCHANGED posts
    /\ UNCHANGED <<user, comments, ctask>>
    /\ UNCHANGED others

\* PostService.mark_failed: post.status = FAILED; commit.  The UPDATE carries
\* the status alone; it is issued only when the loaded status differs.  The
\* call sits in the except branch, so what it raises leaves the run.
MarkFailedNothing(row) == row

MarkFailedRow(row) == [row EXCEPT !.status = "FAILED"]

mark_failed(p) ==
    /\ task[p].pc = "mark_failed"
    /\ \/ /\ Exists(p)
          /\ posts' = SetPost(p, IF task[p].mem_status = "FAILED" THEN posts[p]
                                 ELSE MarkFailedRow(posts[p]))
          /\ task' = [task EXCEPT ![p].pc = "done", ![p].mem_status = "FAILED"]
       \/ /\ task[p].mem_status = "FAILED"
          /\ ~Exists(p)
          /\ task' = [task EXCEPT ![p].pc = "done"]
          /\ UNCHANGED posts
       \/ /\ task[p].mem_status # "FAILED"
          /\ task' = [task EXCEPT ![p].pc = "done", ![p].escaped = TRUE]
          /\ UNCHANGED posts
    /\ UNCHANGED <<user, comments, ctask>>
    /\ UNCHANGED others

\* ------------------------------------------------ api/posts.py get_post_audio
\* The handler reads the row and changes nothing: 404 without a row or an
\* audio path, 410 once audio_expires_at has passed, else the file at
\* post.audio_path.  Neither the status nor the caller is looked at.
get_post_audio(p, expired) ==
    IF ~Exists(p) THEN [code |-> 404, path |-> Null]
    ELSE IF posts[p].audio_path \in {Null, Just(Empty)} THEN [code |-> 404, path |-> Null]
    ELSE IF expired THEN [code |-> 410, path |-> Null]
    ELSE [code |-> 200, path |-> posts[p].audio_path]

\* ------------------------------------- CommentGeminiService._parse_sentiment_output
SentimentLabels == {"IN_FAVOR", "AGAINST"}

\* What the service can answer in sentiment mode: a JSON object whose
\* SENTIMENT is a string, is missing or is no string; text that is no JSON;
\* nothing at all.
SentimentResponses ==
    [kind : {"json"}, value : {"IN_FAVOR", "AGAINST", "in_favor", "NEUTRAL", ""}]
    \cup [kind : {"json_no_key", "json_not_string", "not_json", "empty"}, value : {""}]

\* str.upper() on the answers above
upper(v) == CASE v = "in_favor" -> "IN_FAVOR"
              [] v = "against"  -> "AGAINST"
              [] OTHER          -> v

\* data.get("SENTIMENT", "").upper()
SentimentField(resp) == IF resp.kind = "json" THEN upper(resp.value) ELSE ""

\* .upper() on a value that is no string raises AttributeError, which the
\* except (json.JSONDecodeError, ValueError) clause lets through
SentimentParseRaises(resp) == resp.kind = "json_not_string"

\* the response names one of the two labels
SentimentInSet(resp) == resp.kind = "json" /\ SentimentField(resp) \in SentimentLabels

\* the value returned under "sentiment": the label, or the fallback of the
\* except clause
parse_sentiment_output(resp) ==
    IF resp.kind = "not_json" THEN "AGAINST"
    ELSE IF SentimentField(resp) \notin SentimentLabels THEN "AGAINST"
    ELSE SentimentField(resp)

\* ------------------------------------------------------------ Comment rows
CExists(c) == c \in DOMAIN comments

NewComment(p) ==
    [post_id |-> p, status |-> "PROCESSING", sentiment |-> Null,
     anonymized_audio_path |-> Null]

CommentAnonPath(c) == <<"anon_comment", c>>

IdleCTask ==
    [pc |-> "idle", entry |-> "none", post_id |-> 0, mem_status |-> "PROCESSING",
     sentiment |-> "", anon_path |-> Null, bad_response |-> FALSE,
     sent_calls |-> 0, raised_in |-> "none", persist_failed |-> FALSE,
     escaped |-> FALSE, found |-> FALSE, had_summary |-> FALSE,
     remove_calls |-> 0, remove_failed |-> FALSE]

SetComment(c, row) == [comments EXCEPT ![c] = row]

\* try: if os.path.exists(original_audio_path): os.remove(original_audio_path)
\* except: the failure is printed or passed over
RemoveOriginal(t, failed) ==
    [t EXCEPT !.remove_calls = @ + 1, !.remove_failed = failed]

\* CommentService.create_comment(user, post_id, original_audio_path): the
\* post must exist; the comment is committed in PROCESSING.  Its pipeline is
\* then started through the worker (tasks.process_comment_audio) or by a
\* direct call of CommentService.process_comment_audio, or not at all.
create_comment(c, p, entry) ==
    /\ user
    /\ c = Cardinality(DOMAIN comments) + 1
    /\ c \in CommentIds
    /\ Exists(p)
    /\ comments' = [d \in DOMAIN comments \cup {c} |->
                       IF d = c THEN NewComment(p) ELSE comments[d]]
    /\ \/ ctask' = [ctask EXCEPT ![c].pc = IF entry = "worker" THEN "scheduled"
                                                              ELSE "load_post",
                                 ![c].entry = entry, ![c].post_id = p,
                                 ![c].found = (entry = "service")]
       \/ /\ entry = "worker"
          /\ UNCHANGED ctask
    /\ UNCHANGED <<user, posts, task>>
    /\ UNCHANGED others

\* ---------------------------------------- workers/tasks.py process_comment_audio
\* service.get_comment(comment_id) and the early return, outside the try
CommentFetch(c) ==
    /\ ctask[c].pc = "scheduled"
    /\ \/ ctask' = [ctask EXCEPT ![c].pc = "done", ![c].escaped = TRUE]
       \/ /\ ~CExists(c)
          /\ ctask' = [ctask EXCEPT ![c].pc = "done"]
       \/ /\ CExists(c)
          /\ ctask' = [ctask EXCEPT ![c].pc = "call", ![c].found = TRUE,
                                    ![c].mem_status = comments[c].status,
                                    ![c].had_summary =
                                        IF Exists(comments[c].post_id)
                                        THEN posts[comments[c].post_id].summary
                                                \notin {Null, Just(Empty)}
                                        ELSE FALSE]
    /\ UNCHANGED <<user, posts, task, comments>>
    /\ UNCHANGED others

\* positional parameters of CommentService.process_comment_audio after self
\* (comment, original_audio_path), and the arguments the worker passes
\* (comment, original_audio_path, anonymize_mode)
ServiceParams == 2
WorkerArgs == 3

\* a Python call binds only when the arguments fit the parameters; otherwise
\* it raises TypeError before the body runs
CallBinds(nargs) == nargs = ServiceParams

\* the except branch of the worker
WorkerCaught(t, step) == [t EXCEPT !.pc = "mark_comment_failed", !.raised_in = step]

\* await service.process_comment_audio(comment, original_audio_path, anonymize_mode)
CommentCall(c) ==
    /\ ctask[c].pc = "call"
    /\ ctask' = [ctask EXCEPT ![c] = IF CallBinds(WorkerArgs)
                                     THEN [@ EXCEPT !.pc = "load_post"]
                                     ELSE WorkerCaught(@, "call")]
    /\ UNCHANGED <<user, posts, task, comments>>
    /\ UNCHANGED others

\* CommentService.mark_comment_failed: status = FAILED; commit; refresh
mark_comment_failed(c) ==
    /\ ctask[c].pc = "mark_comment_failed"
    /\ \/ /\ CExists(c)
          /\ comments' = SetComment(c, [comments[c] EXCEPT !.status = "FAILED"])
          /\ \/ ctask' = [ctask EXCEPT ![c].pc = "done", ![c].mem_status = "FAILED"]
             \/ ctask' = [ctask EXCEPT ![c].pc = "done", ![c].mem_status = "FAILED",
                                       ![c].escaped = TRUE]
       \/ /\ ctask[c].mem_status = "FAILED"
          /\ ~CExists(c)
          /\ ctask' = [ctask EXCEPT ![c].pc = "done", ![c].escaped = TRUE]
          /\ UNCHANGED comments
       \/ /\ ctask[c].mem_status # "FAILED"
          /\ ctask' = [ctask EXCEPT ![c].pc = "done", ![c].escaped = TRUE,
                                    ![c].persist_failed = TRUE]
          /\ UNCHANGED comments
    /\ UNCHANGED <<user, posts, task>>
    /\ UNCHANGED others

\* ------------------------------ CommentService.process_comment_audio (the body)
\* the except branch of the service method
ServiceCaught(t, step) == [t EXCEPT !.pc = "service_failed", !.raised_in = step]

\* `if not post or not post.summary: raise ValueError`
SummaryMissingRowOnly(p) == ~Exists(p)

SummaryMissing(p) ==
    IF ~Exists(p) THEN TRUE
    ELSE posts[p].summary \in {Null, Just(Empty)}

ServiceLoadPost(c) ==
    /\ ctask[c].pc = "load_post"
    /\ \/ ctask' = [ctask EXCEPT ![c] = ServiceCaught(@, "select")]
       \/ /\ SummaryMissing(ctask[c].post_id)
          /\ ctask' = [ctask EXCEPT ![c] = ServiceCaught(@, "precondition")]
       \/ /\ ~SummaryMissing(ctask[c].post_id)
          /\ ctask' = [ctask EXCEPT ![c].pc = "sentiment"]
    /\ UNCHANGED <<user, posts, task, comments>>
    /\ UNCHANGED others

\* analyze_comment_sentiment(original_audio_path, post.summary): raises when
\* the service is unconfigured, the file is missing, the upload or the request
\* fails, the response is empty or its SENTIMENT is no string
ServiceSentiment(c) ==
    /\ ctask[c].pc = "sentiment"
    /\ \/ ctask' = [ctask EXCEPT ![c] = ServiceCaught([@ EXCEPT !.sent_calls = @ + 1],
                                                      "sentiment")]
       \/ \E resp \in SentimentResponses :
            IF resp.kind = "empty" \/ SentimentParseRaises(resp)
            THEN ctask' = [ctask EXCEPT ![c] =
                              ServiceCaught([@ EXCEPT !.sent_calls = @ + 1,
                                                      !.bad_response = TRUE], "sentiment")]
            ELSE ctask' = [ctask EXCEPT ![c].sent_calls = @ + 1,
                                        ![c].sentiment = parse_sentiment_output(resp),
                                        ![c].bad_response = ~SentimentInSet(resp),
                                        ![c].pc = "anonymize"]
    /\ UNCHANGED <<user, posts, task, comments>>
    /\ UNCHANGED others

\* voice_anonymizer.anonymize(original_audio_path, preset_index=1)
ServiceAnonymize(c) ==
    /\ ctask[c].pc = "anonymize"
    /\ \/ ctask' = [ctask EXCEPT ![c].anon_path = Just(CommentAnonPath(c)),
                                 ![c].pc = "commit"]
       \/ ctask' = [ctask EXCEPT ![c] = ServiceCaught(@, "anonymize")]
    /\ UNCHANGED <<user, posts, task, comments>>
    /\ UNCHANGED others

\* the three assignments, one commit, the refresh, the removal of the original
\* upload, and the return to the caller
CommentReadyRow(row, sentiment, path) ==
    [row EXCEPT !.sentiment = Just(sentiment), !.anonymized_audio_path = path,
                !.status = "READY"]

ServiceCommit(c) ==
    /\ ctask[c].pc = "commit"
    /\ \/ /\ CExists(c)
          /\ comments' = SetComment(c, CommentReadyRow(comments[c], ctask[c].sentiment,
                                                       ctask[c].anon_path))
          /\ \/ \E failed \in BOOLEAN :
                   ctask' = [ctask EXCEPT ![c] =
                                RemoveOriginal([@ EXCEPT !.pc = "done",
                                                         !.mem_status = "READY"], failed)]
             \/ ctask' = [ctask EXCEPT ![c] =
                             ServiceCaught([@ EXCEPT !.mem_status = "READY"], "refresh")]
       \/ /\ ctask' = [ctask EXCEPT ![c] = ServiceCaught(@, "commit")]
          /\ UNCHANGED comments
    /\ UNCHANGED <<user, posts, task>>
    /\ UNCHANGED others

\* the except branch: comment.status = FAILED; commit; remove the original
\* upload; raise.  The exception reaches the worker's except branch when the
\* worker made the call, the caller otherwise.
Reraised(t) ==
    IF t.entry = "worker" THEN [t EXCEPT !.pc = "mark_comment_failed"]
    ELSE [t EXCEPT !.pc = "done", !.escaped = TRUE]

ServiceFail(c) ==
    /\ ctask[c].pc = "service_failed"
    /\ \/ /\ CExists(c)
          /\ comments' = SetComment(c, [comments[c] EXCEPT !.status = "FAILED"])
          /\ \E failed \in BOOLEAN :
                ctask' = [ctask EXCEPT ![c] =
                             Reraised(RemoveOriginal([@ EXCEPT !.mem_status = "FAILED"],
                                                     failed))]
       \/ /\ ctask' = [ctask EXCEPT ![c] = Reraised([@ EXCEPT !.persist_failed = TRUE])]
          /\ UNCHANGED comments
    /\ UNCHANGED <<user, posts, task>>
    /\ UNCHANGED others

\* ------------------------------------------- UserService.delete_user (cascade)
\* db.delete(user); commit: the user's posts and comments go with the user
delete_user ==
    /\ user
    /\ user' = FALSE
    /\ posts' = <<>>
    /\ comments' = <<>>
    /\ UNCHANGED <<task, ctask>>
    /\ UNCHANGED others

\* a later call of process_post_audio for the same id, with any preset
Reinvoke(p, preset) ==
    /\ task[p].pc = "done"
    /\ task[p].runs <= MaxReruns
    /\ preset \in AnyPreset
    /\ task' = [task EXCEPT ![p] = Scheduled(@, preset)]
    /\ UNCHANGED <<user, posts, comments, ctask>>
    /\ UNCHANGED others

\* ------------------------------------------------------- VoiceAnonymizer
\* A path is a file name and its suffix; the name of an upload and the name
\* of an anonymizer output both carry a uuid4, written here as a number.
Upload(k, ext) == [name |-> <<"upload", k>>, ext |-> ext]
Output(i) == [name |-> <<"anon", i>>, ext |-> "wav"]

\* the uploads on disk, and a path at which no file exists
Uploads == {Upload(1, "wav"), Upload(2, "mp3"), Upload(3, "WAV")}
NoSuchFile == Upload(0, "wav")

UploadContent(path) == [kind |-> "upload", of |-> path.name]

CallIds == 1..MaxCalls

\* the presets an anonymize call is tried with: the no-op, the two ends of
\* the valid range, and one past it on either side of 0..6
CallPresets == {-1, 0, 1, NumPresets, NumPresets + 1}

IdleCall ==
    [pc |-> "idle", input |-> NoSuchFile, preset |-> 0, wav_path |-> Null,
     result |-> Null, raised |-> "none", reads |-> 0, written |-> {}, created |-> {},
     overlapped |-> {}]

\* the calls running in the thread pool: entered and not yet returned
InProgress == {j \in CallIds : acall[j].pc \notin {"idle", "done"}}

\* path.lower() on the suffixes above
lower(ext) == IF ext = "WAV" THEN "wav" ELSE ext

\* Path(path).with_suffix('.wav')
with_suffix_wav(path) == [path EXCEPT !.ext = "wav"]

\* open(path, "wb").write(content): creates the file or replaces its content
WriteFile(files, path, content) ==
    [q \in DOMAIN files \cup {path} |-> IF q = path THEN content ELSE files[q]]

\* the bookkeeping of one write made by a call
Wrote(c, path) ==
    [c EXCEPT !.written = @ \cup {path},
              !.created = IF path \in DOMAIN fs THEN @ ELSE @ \cup {path}]

\* (preset 0 handled like any other selector)
PassThroughNever(preset) == FALSE

\* `if preset_index == 0: return input_path`
PassThrough(preset) == preset = 0

\* VoiceAnonymizer.anonymize(input_path, preset_index) up to the call of
\* ensure_wav: the no-op, the range check
anonymize(i, input, preset) ==
    /\ acall[i].pc = "idle"
    /\ \A j \in CallIds : j < i => acall[j].pc # "idle"
    /\ acall' =
         IF PassThrough(preset)
         THEN [acall EXCEPT ![i] = [@ EXCEPT !.pc = "done", !.input = input,
                                             !.preset = preset,
                                             !.result = Just(input)]]
         ELSE IF ~ValidPreset(preset)
         THEN [acall EXCEPT ![i] = [@ EXCEPT !.pc = "done", !.input = input,
                                             !.preset = preset,
                                             !.raised = "ValueError"]]
         ELSE [j \in CallIds |->
                 IF j = i
                 THEN [acall[i] EXCEPT !.pc = "ensure_wav", !.input = input,
                                       !.preset = preset, !.overlapped = InProgress]
                 ELSE IF j \in InProgress
                 THEN [acall[j] EXCEPT !.overlapped = @ \cup {i}]
                 ELSE acall[j]]
    /\ UNCHANGED <<user, posts, task, comments, ctask, fs, gcall, parse>>
    /\ UNCHANGED <<communities, members, lastop>>

\* the file ensure_wav exports to
ConvertedPath(path) == with_suffix_wav(path)

\* ensure_wav: a path ending in .wav is returned as it is; any other file is
\* decoded (which raises for a missing or undecodable file) and exported next
\* to the source
ensure_wav(i) ==
    /\ acall[i].pc = "ensure_wav"
    /\ IF lower(acall[i].input.ext) = "wav"
       THEN /\ acall' = [acall EXCEPT ![i].pc = "apply_preset",
                                      ![i].wav_path = Just(acall[i].input)]
            /\ UNCHANGED fs
       ELSE \/ /\ acall[i].input \in DOMAIN fs
               /\ fs' = WriteFile(fs, ConvertedPath(acall[i].input),
                                  [kind |-> "wav", of |-> fs[acall[i].input].of])
               /\ acall' = [acall EXCEPT ![i] =
                     Wrote([@ EXCEPT !.pc = "apply_preset", !.reads = @ + 1,
                                     !.wav_path = Just(ConvertedPath(acall[i].input))],
                           ConvertedPath(acall[i].input))]
            \/ /\ acall' = [acall EXCEPT ![i].pc = "done", ![i].raised = "decode",
                                         ![i].reads = @ + 1]
               /\ UNCHANGED fs
    /\ UNCHANGED <<user, posts, task, comments, ctask, gcall, parse>>
    /\ UNCHANGED <<communities, members, lastop>>

\* (an output written over the file the call was given)
OutputOverInput(i, input) == input

\* out_file = base_dir / f"{uuid.uuid4().hex}_anon.wav"
OutFile(i, input) == Output(i)

\* apply_preset: the sound is loaded from the wav file (which raises for a
\* missing or unreadable file), transformed, and saved under a fresh name
apply_preset(i) ==
    /\ acall[i].pc = "apply_preset"
    /\ \/ /\ acall[i].wav_path[1] \in DOMAIN fs
          /\ fs' = WriteFile(fs, OutFile(i, acall[i].input),
                             [kind |-> "anon", of |-> fs[acall[i].wav_path[1]].of])
          /\ acall' = [acall EXCEPT ![i] =
                Wrote([@ EXCEPT !.pc = "done", !.reads = @ + 1,
                                !.result = Just(OutFile(i, acall[i].input))],
                      OutFile(i, acall[i].input))]
       \/ /\ acall' = [acall EXCEPT ![i].pc = "done", ![i].raised = "transform",
                                    ![i].reads = @ + 1]
          /\ UNCHANGED fs
    /\ UNCHANGED <<user, posts, task, comments, ctask, gcall, parse>>
    /\ UNCHANGED <<communities, members, lastop>>

AnonStep(i) == ensure_wav(i) \/ apply_preset(i)

\* ------------------------------------------- transcription client (Gemini)
\* One call at a time of GeminiService.transcribe_romanized_full ("primary")
\* or CommentGeminiService.analyze_comment_sentiment ("sentiment"), and the
\* files held by the external service.
Artifact(n) == <<"files", n>>

IdleClient(available) ==
    [available |-> available, pc |-> "idle", mode |-> "primary",
     path |-> NoSuchFile, calls |-> 0, uploaded |-> FALSE, upload_calls |-> 0,
     delete_calls |-> 0, delete_failed |-> FALSE, remote |-> {},
     pending |-> "none", outcome |-> "none"]

\* (a client that never refuses)
ConfiguredAlways(c) == TRUE

\* `if not self.available or not self.client` / `if not self.gemini.available`
Configured(c) == c.available

\* the checks before the upload: the credential, then the audio file
ClientCall(mode, path) ==
    /\ gcall.pc \in {"idle", "done"}
    /\ gcall.calls < MaxCalls
    /\ gcall' =
         IF ~Configured(gcall)
         THEN [gcall EXCEPT !.pc = "done", !.mode = mode, !.path = path,
                            !.calls = @ + 1, !.uploaded = FALSE,
                            !.delete_calls = 0, !.delete_failed = FALSE,
                            !.pending = "none", !.outcome = "ServiceUnavailable"]
         ELSE IF path \notin DOMAIN fs
         THEN [gcall EXCEPT !.pc = "done", !.mode = mode, !.path = path,
                            !.calls = @ + 1, !.uploaded = FALSE,
                            !.delete_calls = 0, !.delete_failed = FALSE,
                            !.pending = "none", !.outcome = "FileNotFound"]
         ELSE [gcall EXCEPT !.pc = "upload", !.mode = mode, !.path = path,
                            !.calls = @ + 1, !.uploaded = FALSE,
                            !.delete_calls = 0, !.delete_failed = FALSE,
                            !.pending = "none", !.outcome = "none"]
    /\ UNCHANGED <<user, posts, task, comments, ctask, fs, acall, parse>>
    /\ UNCHANGED <<communities, members, lastop>>

\* client.files.upload(file=audio_filepath): returns the uploaded file or
\* raises; nothing is uploaded when it raises
ClientUpload ==
    /\ gcall.pc = "upload"
    /\ \/ gcall' = [gcall EXCEPT !.pc = "generate", !.uploaded = TRUE,
                                 !.upload_calls = @ + 1,
                                 !.remote = @ \cup {Artifact(gcall.calls)}]
       \/ gcall' = [gcall EXCEPT !.pc = "done", !.upload_calls = @ + 1,
                                 !.outcome = "upload"]
    /\ UNCHANGED <<user, posts, task, comments, ctask, fs, acall, parse>>
    /\ UNCHANGED <<communities, members, lastop>>

\* what the rest of the call will do with the answer of generate_content
PrimaryVerdict(resp) ==
    IF resp.kind = "empty" THEN "EmptyResponse"
    ELSE IF ParseRaises(resp) THEN "parse"
    ELSE "returned"

SentimentVerdict(resp) ==
    IF resp.kind = "empty" THEN "EmptyResponse"
    ELSE IF SentimentParseRaises(resp) THEN "parse"
    ELSE "returned"

\* client.models.generate_content(...): raises, or answers
ClientGenerate ==
    /\ gcall.pc = "generate"
    /\ \/ gcall' = [gcall EXCEPT !.pc = "cleanup", !.pending = "generate"]
       \/ /\ gcall.mode = "primary"
          /\ \E resp \in Responses :
                gcall' = [gcall EXCEPT !.pc = "cleanup",
                                       !.pending = PrimaryVerdict(resp)]
       \/ /\ gcall.mode = "sentiment"
          /\ \E resp \in SentimentResponses :
                gcall' = [gcall EXCEPT !.pc = "cleanup",
                                       !.pending = SentimentVerdict(resp)]
    /\ UNCHANGED <<user, posts, task, comments, ctask, fs, acall, parse>>
    /\ UNCHANGED <<communities, members, lastop>>

\* (a cleanup that is skipped when generate_content raised)
CleansUpUnlessRaised(c) == c.uploaded /\ c.pending # "generate"

\* the finally clause: `if uploaded:` delete the uploaded file
CleansUp(c) == c.uploaded

\* client.files.delete(name=uploaded.name) inside try/except: what it raises
\* is printed and dropped
ClientCleanup ==
    /\ gcall.pc = "cleanup"
    /\ IF CleansUp(gcall)
       THEN \/ gcall' = [gcall EXCEPT !.pc = "finish", !.delete_calls = @ + 1,
                                      !.remote = @ \ {Artifact(gcall.calls)}]
            \/ gcall' = [gcall EXCEPT !.pc = "finish", !.delete_calls = @ + 1,
                                      !.delete_failed = TRUE]
       ELSE gcall' = [gcall EXCEPT !.pc = "finish"]
    /\ UNCHANGED <<user, posts, task, comments, ctask, fs, acall, parse>>
    /\ UNCHANGED <<communities, members, lastop>>

\* after the finally clause: the exception of generate_content propagates, an
\* empty answer raises, the parser raises or the result is returned
ClientFinish ==
    /\ gcall.pc = "finish"
    /\ gcall' = [gcall EXCEPT !.pc = "done", !.outcome = gcall.pending]
    /\ UNCHANGED <<user, posts, task, comments, ctask, fs, acall, parse>>
    /\ UNCHANGED <<communities, members, lastop>>

ClientStep == ClientUpload \/ ClientGenerate \/ ClientCleanup \/ ClientFinish

\* ------------------------------------- parse_output on the raw response text
\* A raw response is either text json.loads accepts, given by the object it
\* decodes to, or any other text, given by its characters.  A marker line is
\* written as one character.
Marker(key) ==
    CASE key = "TRANSCRIPT" -> "TRANSCRIPT:"
      [] key = "SUMMARY"    -> "SUMMARY:"
      [] key = "TLDR"       -> "TLDR:"
      [] key = "LANGUAGE"   -> "LANGUAGE:"

KeyOrder == <<"TRANSCRIPT", "SUMMARY", "TLDR", "LANGUAGE">>

\* the field values tried: plain, padded, two words, two lines
Values == {<<"a">>, <<" ", "a", " ">>, <<"a", " ", "b">>, <<"a", "\n", "b">>}

Contents == [Keys -> Values]

\* the contents that lack some of the four fields, or all of them
PartialContents == UNION {[present -> Values] : present \in SUBSET Keys}

\* the structured response carrying the four values
JsonRaw(content) == [shape |-> "json", data |-> content, text |-> Empty]

\* the line-oriented response carrying them: each marker on a line of its
\* own, followed by the value
RECURSIVE MarkedText(_, _)
MarkedText(content, i) ==
    IF i > Len(KeyOrder) THEN Empty
    ELSE IF KeyOrder[i] \notin DOMAIN content THEN MarkedText(content, i + 1)
    ELSE <<Marker(KeyOrder[i]), "\n">> \o content[KeyOrder[i]] \o <<"\n">>
            \o MarkedText(content, i + 1)

TextRaw(content) ==
    [shape |-> "text", data |-> content, text |-> MarkedText(content, 1)]

\* text that json.loads decodes to a value that is no object: an array, a
\* number, a string, null
JsonOther == [shape |-> "json_other", data |-> <<>>, text |-> Empty]

\* str.splitlines()
RECURSIVE splitlines(_, _)
splitlines(s, line) ==
    IF s = <<>> THEN (IF line = <<>> THEN <<>> ELSE <<line>>)
    ELSE IF Head(s) = "\n" THEN <<line>> \o splitlines(Tail(s), <<>>)
    ELSE splitlines(Tail(s), Append(line, Head(s)))

\* the markers the line parser knows
IsMarker(line) == Len(line) = 1 /\ \E k \in Keys : line[1] = Marker(k)
MarkerKey(line) == CHOOSE k \in Keys : line[1] = Marker(k)

\* the loop over the lines: blank lines are skipped, a marker line selects
\* the block, any other line is appended to the current block with a blank
RECURSIVE ParseLines(_, _, _)
ParseLines(lines, current_key, block) ==
    IF lines = <<>> THEN block
    ELSE IF strip(Head(lines)) = <<>> THEN ParseLines(Tail(lines), current_key, block)
    ELSE IF IsMarker(strip(Head(lines)))
    THEN ParseLines(Tail(lines), MarkerKey(strip(Head(lines))), block)
    ELSE IF current_key = "none" THEN ParseLines(Tail(lines), current_key, block)
    ELSE ParseLines(Tail(lines), current_key,
                    [block EXCEPT ![current_key] = @ \o strip(Head(lines)) \o <<" ">>])

\* the fallback: the stripped blocks
ParseText(text) ==
    [k \in Keys |->
        strip(ParseLines(splitlines(text, <<>>), "none", [j \in Keys |-> Empty])[k])]

\* (a structured parser that returns the values as they are)
JsonVerbatim(data) == [k \in Keys |-> IF k \in DOMAIN data THEN data[k] ELSE Empty]

\* the structured branch: data.get(KEY, "").strip()
ParseJson(data) ==
    [k \in Keys |-> IF k \in DOMAIN data THEN strip(data[k]) ELSE Empty]

AsResult(f) ==
    [transcript |-> f["TRANSCRIPT"], summary |-> f["SUMMARY"],
     tldr |-> f["TLDR"], language |-> f["LANGUAGE"]]

\* parse_output(raw): structured parsing first, the line parser only when
\* json.loads raised
parse_output_raw(raw) ==
    IF raw.shape = "json" THEN AsResult(ParseJson(raw.data))
    ELSE AsResult(ParseText(raw.text))

\* data.get(...) on a decoded value that has no such method raises
\* AttributeError, which `except json.JSONDecodeError` lets through
FieldAccessRaises(raw) == raw.shape = "json_other"

\* the parser that produces the result: the line parser runs only after
\* json.loads raised
ParserUsed(raw) == IF raw.shape = "text" THEN "lines" ELSE "json"

IdleParse(raw) ==
    [raw |-> raw, pc |-> "idle", result |-> NoResult, raised |-> "none",
     via |-> "none"]

\* result = self.parse_output(response.text)
ParseCall ==
    /\ parse.pc = "idle"
    /\ parse' = IF FieldAccessRaises(parse.raw)
                THEN [parse EXCEPT !.pc = "done", !.raised = "AttributeError",
                                   !.via = ParserUsed(parse.raw)]
                ELSE [parse EXCEPT !.pc = "done",
                                   !.result = parse_output_raw(parse.raw),
                                   !.via = ParserUsed(parse.raw)]
    /\ UNCHANGED <<user, posts, task, comments, ctask, fs, acall, gcall>>
    /\ UNCHANGED <<communities, members, lastop>>

\* ------------------------------------------------------------ communities
\* CommunityService and CommunityManagementService.  One action is one call
\* of a service method, from its checks to its commit; a commit that raises
\* persists nothing.
CommunityIds == {"c"}
CUsers == 1..MaxUsers

Roles == {"MEMBER", "MODERATOR", "ADMIN", "OWNER"}

\* role_hierarchy of check_permission
role_hierarchy(role) ==
    CASE role = "MEMBER"    -> 1
      [] role = "MODERATOR" -> 2
      [] role = "ADMIN"     -> 3
      [] role = "OWNER"     -> 4
      [] OTHER              -> 0

HasRow(c, u) == <<c, u>> \in DOMAIN members

\* membership is not None and membership.is_active
IsActive(c, u) == IF HasRow(c, u) THEN members[<<c, u>>].is_active ELSE FALSE

\* the role of the active membership, or none
get_user_role_in_community(c, u) ==
    IF IsActive(c, u) THEN members[<<c, u>>].role ELSE "none"

check_permission(c, u, required_role) ==
    IF get_user_role_in_community(c, u) = "none" THEN FALSE
    ELSE role_hierarchy(get_user_role_in_community(c, u)) >= role_hierarchy(required_role)

\* INSERT or UPDATE of one membership row
SetMember(c, u, row) ==
    [k \in DOMAIN members \cup {<<c, u>>} |-> IF k = <<c, u>> THEN row ELSE members[k]]

\* CommunityMembership(user_id, community_id, role), is_active by default
NewMember(role) == [role |-> role, is_active |-> TRUE]

\* Community(..., owner_id=creator.id, member_count=1); `founded` records that
\* the owner's membership was committed too
NewCommunity(creator, founded) ==
    [owner_id |-> creator, member_count |-> 1, founded |-> founded]

Ended(op, outcome) == [op |-> op, outcome |-> outcome]

\* (a count that nothing lowers)
KeepCount(row) == row

\* community.member_count += 1
Incremented(row) == [row EXCEPT !.member_count = @ + 1]

\* if community and community.member_count > 0: community.member_count -= 1
Decremented(row) ==
    IF row.member_count > 0 THEN [row EXCEPT !.member_count = @ - 1] ELSE row

\* CommunityService.create_community: the name check, the commit of the
\* community, then the commit of the creator's OWNER membership
create_community(c, creator) ==
    /\ IF c \in DOMAIN communities
       THEN /\ lastop' = Ended("create_community", "ValueError")
            /\ UNCHANGED <<communities, members>>
       ELSE \/ /\ lastop' = Ended("create_community", "commit")
               /\ UNCHANGED <<communities, members>>
            \/ /\ communities' = [d \in DOMAIN communities \cup {c} |->
                                     IF d = c THEN NewCommunity(creator, FALSE)
                                     ELSE communities[d]]
               /\ lastop' = Ended("create_community", "commit")
               /\ UNCHANGED members
            \/ /\ communities' = [d \in DOMAIN communities \cup {c} |->
                                     IF d = c THEN NewCommunity(creator, TRUE)
                                     ELSE communities[d]]
               /\ members' = SetMember(c, creator, NewMember("OWNER"))
               /\ lastop' = Ended("create_community", "ok")
    /\ UNCHANGED pipelines

\* CommunityService.join_community: an active member is refused; an inactive
\* row is reactivated as it is, a missing one is created with role MEMBER;
\* the count goes up; one commit.  Without the community the new row breaks
\* its foreign key and the commit raises.
join_community(c, u) ==
    /\ IF IsActive(c, u)
       THEN /\ lastop' = Ended("join_community", "ValueError")
            /\ UNCHANGED <<communities, members>>
       ELSE IF c \notin DOMAIN communities
       THEN /\ lastop' = Ended("join_community", "commit")
            /\ UNCHANGED <<communities, members>>
       ELSE \/ /\ members' = SetMember(c, u, IF HasRow(c, u)
                                              THEN [members[<<c, u>>] EXCEPT !.is_active = TRUE]
                                              ELSE NewMember("MEMBER"))
               /\ communities' = [communities EXCEPT ![c] = Incremented(@)]
               /\ lastop' = Ended("join_community", "ok")
            \/ /\ lastop' = Ended("join_community", "commit")
               /\ UNCHANGED <<communities, members>>
    /\ UNCHANGED pipelines

\* CommunityService.leave_community: whoever holds an active membership may
\* leave, the owner included
leave_community(c, u) ==
    /\ IF ~IsActive(c, u)
       THEN /\ lastop' = Ended("leave_community", "ValueError")
            /\ UNCHANGED <<communities, members>>
       ELSE \/ /\ members' = SetMember(c, u, [members[<<c, u>>] EXCEPT !.is_active = FALSE])
               /\ communities' = [communities EXCEPT ![c] = Decremented(@)]
               /\ lastop' = Ended("leave_community", "ok")
            \/ /\ lastop' = Ended("leave_community", "commit")
               /\ UNCHANGED <<communities, members>>
    /\ UNCHANGED pipelines

\* CommunityManagementService.change_member_role
change_member_role(c, target, new_role, acting) ==
    /\ IF ~check_permission(c, acting, "ADMIN")
       THEN /\ lastop' = Ended("change_member_role", "PermissionError")
            /\ UNCHANGED <<communities, members>>
       ELSE IF ~IsActive(c, target)
       THEN /\ lastop' = Ended("change_member_role", "ValueError")
            /\ UNCHANGED <<communities, members>>
       ELSE IF members[<<c, target>>].role = "OWNER" \/ new_role = "OWNER"
       THEN /\ lastop' = Ended("change_member_role", "PermissionError")
            /\ UNCHANGED <<communities, members>>
       ELSE \/ /\ members' = SetMember(c, target, [members[<<c, target>>] EXCEPT !.role = new_role])
               /\ lastop' \in {Ended("change_member_role", "ok"),
                                Ended("change_member_role", "refresh")}
               /\ UNCHANGED communities
            \/ /\ lastop' = Ended("change_member_role", "commit")
               /\ UNCHANGED <<communities, members>>
    /\ UNCHANGED pipelines

\* CommunityManagementService.remove_member
remove_member(c, target, acting) ==
    /\ IF ~check_permission(c, acting, "ADMIN")
       THEN /\ lastop' = Ended("remove_member", "PermissionError")
            /\ UNCHANGED <<communities, members>>
       ELSE IF ~IsActive(c, target)
       THEN /\ lastop' = Ended("remove_member", "ValueError")
            /\ UNCHANGED <<communities, members>>
       ELSE IF members[<<c, target>>].role = "OWNER"
       THEN /\ lastop' = Ended("remove_member", "PermissionError")
            /\ UNCHANGED <<communities, members>>
       ELSE IF target = acting
       THEN /\ lastop' = Ended("remove_member", "ValueError")
            /\ UNCHANGED <<communities, members>>
       ELSE \/ /\ members' = SetMember(c, target,
                                        [members[<<c, target>>] EXCEPT !.is_active = FALSE])
               /\ communities' = [communities EXCEPT ![c] = Decremented(@)]
               /\ lastop' = Ended("remove_member", "ok")
            \/ /\ lastop' = Ended("remove_member", "commit")
               /\ UNCHANGED <<communities, members>>
    /\ UNCHANGED pipelines

\* the two role assignments of transfer_ownership, in the order of the code:
\* when both memberships are the same row the second assignment wins
TransferRoles(c, new_owner, current_owner) ==
    [k \in DOMAIN members |->
        IF k = <<c, current_owner>> THEN [members[k] EXCEPT !.role = "ADMIN"]
        ELSE IF k = <<c, new_owner>> THEN [members[k] EXCEPT !.role = "OWNER"]
        ELSE members[k]]

\* CommunityManagementService.transfer_ownership
transfer_ownership(c, new_owner, current_owner) ==
    /\ IF ~check_permission(c, current_owner, "OWNER")
       THEN /\ lastop' = Ended("transfer_ownership", "PermissionError")
            /\ UNCHANGED <<communities, members>>
       ELSE IF ~IsActive(c, new_owner)
       THEN /\ lastop' = Ended("transfer_ownership", "ValueError")
            /\ UNCHANGED <<communities, members>>
       ELSE \/ /\ communities' = [communities EXCEPT ![c].owner_id = new_owner]
               /\ members' = TransferRoles(c, new_owner, current_owner)
               /\ lastop' = Ended("transfer_ownership", "ok")
            \/ /\ lastop' = Ended("transfer_ownership", "commit")
               /\ UNCHANGED <<communities, members>>
    /\ UNCHANGED pipelines

\* ------------------------------------------------------------ specification
\* no rows, no runs
NoRows ==
    /\ user = TRUE
    /\ posts = <<>>
    /\ task = [p \in PostIds |-> IdleTask]
    /\ comments = <<>>
    /\ ctask = [c \in CommentIds |-> IdleCTask]
    /\ communities = <<>>
    /\ members = <<>>
    /\ lastop = [op |-> "none", outcome |-> "none"]

\* the uploads on disk, no call made
UploadsOnDisk == fs = [path \in Uploads |-> UploadContent(path)]
NoAnonCalls == acall = [i \in CallIds |-> IdleCall]
SampleRaw == JsonRaw([k \in Keys |-> RawValue])

Init ==
    /\ NoRows
    /\ UploadsOnDisk
    /\ NoAnonCalls
    /\ gcall = IdleClient(TRUE)
    /\ parse = IdleParse(SampleRaw)

PostStep(p) ==
    \/ PostFetch(p)
    \/ PostAnonymize(p)
    \/ PostCommitPath(p)
    \/ PostSelect(p)
    \/ PostTranscribe(p)
    \/ update_transcription(p)
    \/ mark_failed(p)

CommentStep(c) ==
    \/ CommentFetch(c)
    \/ CommentCall(c)
    \/ mark_comment_failed(c)
    \/ ServiceLoadPost(c)
    \/ ServiceSentiment(c)
    \/ ServiceAnonymize(c)
    \/ ServiceCommit(c)
    \/ ServiceFail(c)

\* the post pipeline: posts are created, each is processed by its one run,
\* the user may be deleted
Next ==
    \/ \E p \in PostIds, preset \in Presets : create_post(p, preset)
    \/ \E p \in PostIds : PostStep(p)
    \/ delete_user

Spec == Init /\ [][Next]_vars

\* the post pipeline with later calls of process_post_audio for the same id
NextRetry ==
    \/ Next
    \/ \E p \in PostIds, preset \in AnyPreset : Reinvoke(p, preset)

SpecRetry == Init /\ [][NextRetry]_vars

\* the comment pipeline: one post, its run, and the comments on it
Parent == CHOOSE p \in PostIds : \A q \in PostIds : p <= q

NextComment ==
    \/ \E preset \in Presets : create_post(Parent, preset)
    \/ PostStep(Parent)
    \/ \E c \in CommentIds, entry \in {"worker", "service"} :
            create_comment(c, Parent, entry)
    \/ \E c \in CommentIds : CommentStep(c)
    \/ delete_user

SpecComment == Init /\ [][NextComment]_vars

\* the runs of one post, the first and the later ones, where every step of a
\* started run is eventually taken: the event loop resumes a task once its
\* awaited call returns or raises
NextOne ==
    \/ \E preset \in Presets : create_post(Parent, preset)
    \/ PostStep(Parent)
    \/ \E preset \in AnyPreset : Reinvoke(Parent, preset)
    \/ delete_user

FairSpec == Init /\ [][NextOne]_vars /\ WF_vars(PostStep(Parent))

\* the anonymizer alone: calls on the uploads, on a missing file and on the
\* files earlier calls produced, interleaved
NextAnon ==
    \/ \E i \in CallIds, input \in Uploads \cup {NoSuchFile} \cup DOMAIN fs,
          preset \in CallPresets : anonymize(i, input, preset)
    \/ \E i \in CallIds : AnonStep(i)

SpecAnon == Init /\ [][NextAnon]_vars

\* the transcription client alone, configured or not
InitClient ==
    /\ NoRows
    /\ UploadsOnDisk
    /\ NoAnonCalls
    /\ \E available \in BOOLEAN : gcall = IdleClient(available)
    /\ parse = IdleParse(SampleRaw)

NextClient ==
    \/ \E mode \in {"primary", "sentiment"}, path \in Uploads \cup {NoSuchFile} :
            ClientCall(mode, path)
    \/ ClientStep

SpecClient == InitClient /\ [][NextClient]_vars

\* parse_output alone, applied to the structured and to the line-oriented
\* response of every content
InitParse ==
    /\ NoRows
    /\ UploadsOnDisk
    /\ NoAnonCalls
    /\ gcall = IdleClient(TRUE)
    /\ \E content \in Contents :
          parse \in {IdleParse(JsonRaw(content)), IdleParse(TextRaw(content))}

SpecParse == InitParse /\ [][ParseCall]_vars

\* the communities alone: every operation, by and on every user, in any order
NextCommunity ==
    \/ \E c \in CommunityIds, u \in CUsers : create_community(c, u)
    \/ \E c \in CommunityIds, u \in CUsers : join_community(c, u)
    \/ \E c \in CommunityIds, u \in CUsers : leave_community(c, u)
    \/ \E c \in CommunityIds, target \in CUsers, new_role \in Roles, acting \in CUsers :
            change_member_role(c, target, new_role, acting)
    \/ \E c \in CommunityIds, target \in CUsers, acting \in CUsers :
            remove_member(c, target, acting)
    \/ \E c \in CommunityIds, new_owner \in CUsers, current_owner \in CUsers :
            transfer_ownership(c, new_owner, current_owner)

SpecCommunity == Init /\ [][NextCommunity]_vars

\* parse_output applied to responses that lack fields: objects and marker
\* texts without some keys, and JSON that is no object
InitParseAny ==
    /\ NoRows
    /\ UploadsOnDisk
    /\ NoAnonCalls
    /\ gcall = IdleClient(TRUE)
    /\ \/ \E content \in PartialContents :
             parse \in {IdleParse(JsonRaw(content)), IdleParse(TextRaw(content))}
       \/ parse = IdleParse(JsonOther)

SpecParseAny == InitParseAny /\ [][ParseCall]_vars

\* ---------------------------------------------------------------- properties
Terminal == {"READY", "FAILED"}

ContentNull(row) ==
    row.transcript = Null /\ row.summary = Null /\ row.tldr = Null /\ row.language = Null

ContentNonNull(row) ==
    row.transcript # Null /\ row.summary # Null /\ row.tldr # Null /\ row.language # Null

ContentPopulated(row) ==
    /\ row.transcript \notin {Null, Just(Empty)}
    /\ row.summary \notin {Null, Just(Empty)}
    /\ row.tldr \notin {Null, Just(Empty)}
    /\ row.language \notin {Null, Just(Empty)}

\* C1: once a post's persisted status is READY or FAILED, no step changes it,
\* a second call of process_post_audio for the same id included.
C1_TerminalAbsorbing ==
    [][\A p \in PostIds :
          (Exists(p) /\ posts[p].status \in Terminal /\ p \in DOMAIN posts')
              => posts'[p].status = posts[p].status]_vars

C3_ContentOnlyWhenReady ==
    \A p \in DOMAIN posts :
        /\ posts[p].status \in {"PROCESSING", "FAILED"} => ContentNull(posts[p])
        /\ posts[p].status = "READY" => ContentNonNull(posts[p])

\* C4 (as claimed): a READY post has all four content columns populated, none
\* absent or empty.
C4_ReadyIsPopulated ==
    \A p \in DOMAIN posts : posts[p].status = "READY" => ContentPopulated(posts[p])

\* C4 (amended): a READY post has all four content columns non-NULL; a column
\* whose key the response lacks holds the empty string.
C4_ReadyIsNonNull ==
    \A p \in DOMAIN posts : posts[p].status = "READY" => ContentNonNull(posts[p])

C4_Witness ==
    \E p \in DOMAIN posts :
        /\ posts[p].status = "READY"
        /\ posts[p].summary = Just(Empty)
        /\ posts[p].transcript = Just(<<"a">>)

\* the run is over and its anonymize or transcribe step raised
StepRaised(p) ==
    task[p].pc = "done" /\ task[p].raised_in \in {"anonymize", "transcribe"}

NoAudio(p) == IF Exists(p) THEN posts[p].audio_path \in {Null, Just(Empty)} ELSE TRUE

C6_NothingToDoIsSilent ==
    [][\A p \in PostIds :
          (task[p].pc = "scheduled" /\ NoAudio(p) /\ task'[p] # task[p])
              => /\ task'[p].pc = "done"
                 /\ posts' = posts /\ comments' = comments
                 /\ task'[p].anon_calls = 0 /\ task'[p].gemini_calls = 0]_vars

C6_Witness ==
    \E p \in PostIds :
        /\ task[p].pc = "done" /\ task[p].runs = 1 /\ ~task[p].found
        /\ ~task[p].escaped /\ ~Exists(p)

\* the parent post of a comment's run has no summary
ParentWithoutSummary(c) ==
    IF Exists(ctask[c].post_id)
    THEN posts[ctask[c].post_id].summary \in {Null, Just(Empty)}
    ELSE TRUE

EnvRaised(t) ==
    \/ t.raised_in \in {"select", "sentiment", "anonymize", "commit", "refresh"}
    \/ t.persist_failed
    \/ t.escaped

\* C8: a worker run for a comment whose parent has a summary, in which no
\* external call raises, ends with the comment READY.
C8_WorkerRunEndsReady ==
    \A c \in DOMAIN comments :
        (ctask[c].pc = "done" /\ ctask[c].entry = "worker"
         /\ ctask[c].had_summary /\ ~EnvRaised(ctask[c]))
            => comments[c].status = "READY"

\* C9: sentiment and anonymized_audio_path are set exactly when the comment
\* is READY.
C9_SentimentOnlyWhenReady ==
    \A c \in DOMAIN comments :
        /\ (comments[c].sentiment # Null \/ comments[c].anonymized_audio_path # Null)
              => comments[c].status = "READY"
        /\ comments[c].status = "READY"
              => (comments[c].sentiment # Null /\ comments[c].anonymized_audio_path # Null)

\* C10: a sentiment response that is unparseable or names no valid label is
\* an error, so the comment does not become READY on it.
C10_BadResponseFails ==
    \A c \in DOMAIN comments :
        ctask[c].bad_response => comments[c].status # "READY"

\* C11: for preset 0, anonymize returns the input path unchanged and touches
\* no file, whatever the input path.
C11_PresetZeroIsIdentity ==
    \A i \in CallIds :
        (acall[i].pc = "done" /\ acall[i].preset = 0)
            => /\ acall[i].result = Just(acall[i].input)
               /\ acall[i].raised = "none"
               /\ acall[i].written = {} /\ acall[i].reads = 0

C11_Witness ==
    \E i \in CallIds :
        /\ acall[i].pc = "done" /\ acall[i].preset = 0
        /\ acall[i].input = Upload(2, "mp3")
        /\ acall[i].result = Just(Upload(2, "mp3"))
        /\ DOMAIN fs = Uploads

\* C12: a call with a preset in 1..6 that returns, returns a path different
\* from its input path, and no step of the call overwrites or modifies the
\* input file.
C12_InputUntouched ==
    [][\A i \in CallIds :
          (acall'[i] # acall[i] /\ ValidPreset(acall'[i].preset))
              => /\ acall'[i].input \in DOMAIN fs
                    => /\ acall'[i].input \in DOMAIN fs'
                       /\ fs'[acall'[i].input] = fs[acall'[i].input]
                 /\ acall'[i].result # Null
                    => acall'[i].result # Just(acall'[i].input)]_vars

C12_Witness ==
    \E i \in CallIds :
        /\ acall[i].pc = "done" /\ acall[i].preset = NumPresets
        /\ acall[i].input = Upload(2, "mp3")
        /\ acall[i].result = Just(Output(i))
        /\ fs[Upload(2, "mp3")] = UploadContent(Upload(2, "mp3"))

\* C13: a call with a non-zero preset that returns has written exactly one
\* file, a new one, and its input file still exists.
C13_ExactlyOneNewFile ==
    \A i \in CallIds :
        (acall[i].pc = "done" /\ acall[i].preset # 0 /\ acall[i].result # Null)
            => /\ Cardinality(acall[i].written) = 1
               /\ acall[i].created = acall[i].written
               /\ acall[i].input \in DOMAIN fs

\* C14: with no credential, a call in either mode fails with the
\* service-unavailable error before any upload: no upload is attempted and no
\* file is ever held by the external service.
C14_UnconfiguredNeverUploads ==
    ~gcall.available
        => /\ gcall.pc \in {"idle", "done"}
           /\ gcall.pc = "done" => gcall.outcome = "ServiceUnavailable"
           /\ gcall.upload_calls = 0
           /\ gcall.remote = {}

C14_Witness ==
    /\ ~gcall.available /\ gcall.pc = "done" /\ gcall.calls = 2
    /\ gcall.mode = "sentiment" /\ gcall.path \in DOMAIN fs
    /\ gcall.outcome = "ServiceUnavailable"

\* the call is over and its upload had succeeded
UploadedAndOver == gcall.pc = "done" /\ gcall.uploaded

\* C15: in both modes, once the upload has succeeded the deletion of the
\* uploaded file is requested exactly once before the call returns or raises,
\* whatever the exit path; the file is gone unless that request itself failed.
C15_CleanupOnEveryExit ==
    /\ UploadedAndOver
          => /\ gcall.delete_calls = 1
             /\ ~gcall.delete_failed => Artifact(gcall.calls) \notin gcall.remote
    /\ (gcall.pc = "done" /\ ~gcall.uploaded) => gcall.delete_calls = 0

C15_Witness ==
    /\ UploadedAndOver /\ gcall.mode = "sentiment"
    /\ gcall.outcome = "generate" /\ gcall.delete_calls = 1
    /\ gcall.remote = {}

\* the field of a result that a key is stored in
ResultField(r, key) ==
    CASE key = "TRANSCRIPT" -> r.transcript
      [] key = "SUMMARY"    -> r.summary
      [] key = "TLDR"       -> r.tldr
      [] key = "LANGUAGE"   -> r.language

\* a text without leading or trailing whitespace
NoPadding(t) == t = <<>> \/ (Head(t) \notin Whitespace /\ t[Len(t)] \notin Whitespace)

\* parse_output has been applied to a structured response
ParsedJson == parse.pc = "done" /\ parse.raw.shape = "json"

\* C16 (as claimed): for a structured response with four populated fields the
\* result's four fields equal the input values exactly.
C16_RoundTripExact ==
    ParsedJson => parse.result = AsResult(parse.raw.data)

\* C16 (amended): each field of the result is the input value without its
\* leading and trailing whitespace; it equals the input value exactly when
\* that value carries none.
C16_RoundTripStripped ==
    ParsedJson =>
        \A k \in Keys :
            /\ NoPadding(ResultField(parse.result, k))
            /\ ResultField(parse.result, k) = strip(parse.raw.data[k])
            /\ NoPadding(parse.raw.data[k])
                  => ResultField(parse.result, k) = parse.raw.data[k]

C16_Witness ==
    /\ ParsedJson
    /\ parse.raw.data["SUMMARY"] = <<" ", "a", " ">>
    /\ parse.result.summary = <<"a">>
    /\ parse.raw.data["TRANSCRIPT"] = <<"a", "\n", "b">>
    /\ parse.result.transcript = <<"a", "\n", "b">>

\* C17: for the same four values, the line-oriented response with the four
\* markers parses to the same result as the structured response.
C17_FallbackEquivalent ==
    (parse.pc = "done" /\ parse.raw.shape = "text")
        => parse.result = parse_output_raw(JsonRaw(parse.raw.data))

\* C18: a create-post request that succeeds persists exactly one Post, in
\* PROCESSING with the saved upload as audio_path, and schedules exactly one
\* run for that id with the submitted preset; a run is scheduled only in the
\* step that commits its post.
C18_OnePostOneRun ==
    [][\A p \in PostIds :
          /\ \A preset \in 0..NumPresets :
                (create_post(p, preset) /\ task'[p] # task[p])
                    => /\ task'[p].pc = "scheduled"
                       /\ task'[p].preset = preset
                       /\ task'[p].runs = 1
                       /\ \A q \in PostIds \ {p} : task'[q] = task[q]
          /\ task'[p].runs # task[p].runs
                => /\ task[p].runs = 0 /\ task'[p].runs = 1
                   /\ p \notin DOMAIN posts
                   /\ DOMAIN posts' = DOMAIN posts \cup {p}
                   /\ posts'[p].status = "PROCESSING"
                   /\ posts'[p].audio_path = Just(RawPath(p))
                   /\ \A q \in DOMAIN posts : posts'[q] = posts[q]]_vars

C18_Witness ==
    \E p \in PostIds :
        /\ p > 1 /\ task[p].pc = "scheduled" /\ task[p].preset = 1
        /\ task[p].runs = 1 /\ Exists(p)
        /\ posts[p] = NewPost(Just(RawPath(p)))

\* the transcription call of a run with a non-zero preset has started
TranscribingAnonymized(p) == task[p].preset # 0 /\ task[p].gemini_calls > 0

\* the run of a non-zero preset is over and its transcription call raised
TranscriptionRaised(p) ==
    /\ task[p].pc = "done" /\ task[p].preset # 0
    /\ task[p].raised_in = "transcribe"

C21_NoRetry ==
    \A p \in PostIds :
        /\ task[p].anon_calls <= 1
        /\ task[p].gemini_calls <= 1
        /\ task[p].raised_in # "none" => task[p].pc \in {"mark_failed", "done"}
        /\ task[p].raised_in = "anonymize"
              => (task[p].anon_calls = 1 /\ task[p].gemini_calls = 0)
        /\ task[p].raised_in = "transcribe" => task[p].gemini_calls = 1

C21_Witness ==
    \E p \in PostIds :
        /\ task[p].pc = "done" /\ task[p].raised_in = "transcribe"
        /\ task[p].preset = 1
        /\ task[p].anon_calls = 1 /\ task[p].gemini_calls = 1

\* the worker's run for comment c is over and the comment is READY or FAILED
WorkerRunConcluded(c) ==
    /\ ctask[c].pc = "done" /\ ctask[c].entry = "worker" /\ ctask[c].found
    /\ comments[c].status \in Terminal

\* C22: when a run started by the worker concludes with the comment READY or
\* FAILED, the removal of the original upload has been attempted; and a
\* removal that fails leaves the status the pipeline committed.
C22_OriginalRemovalAttempted ==
    \A c \in DOMAIN comments :
        /\ WorkerRunConcluded(c) => ctask[c].remove_calls >= 1
        /\ ctask[c].remove_failed
              => comments[c].status = IF ctask[c].raised_in = "none" THEN "READY"
                                      ELSE "FAILED"

\* the row a finished run of post p must have left, read off the run's own
\* record: the audio path it committed or kept, and the content and status
\* of the step it ended in
OwnOutcome(p) ==
    /\ posts[p].audio_path \in {Just(RawPath(p)), task[p].anon_path}
    /\ task[p].raised_in = "none"
          => /\ posts[p].audio_path = task[p].original_audio
             /\ posts[p] = UpdateTranscriptionRow(posts[p], task[p].result)
    /\ task[p].raised_in = "refresh"
          => posts[p] = IF task[p].escaped
                        THEN UpdateTranscriptionRow(posts[p], task[p].result)
                        ELSE MarkFailedRow(UpdateTranscriptionRow(posts[p],
                                                                  task[p].result))
    /\ task[p].raised_in \notin {"none", "refresh"}
          => /\ ContentNull(posts[p])
             /\ posts[p].status = IF task[p].escaped THEN "PROCESSING" ELSE "FAILED"

\* C23: the runs of different posts are independent under every interleaving:
\* a step of the run of post a changes neither the row nor the run of another
\* post b, and the row a finished run leaves is the outcome of that run's own
\* steps, whatever the other runs did in between.
C23_RunsIndependent ==
    /\ [][\A a, b \in PostIds :
            (a # b /\ task'[a] # task[a])
                => /\ task'[b] = task[b]
                   /\ (Exists(b) /\ b \in DOMAIN posts') => posts'[b] = posts[b]]_vars
    /\ [](\A p \in DOMAIN posts :
            (task[p].pc = "done" /\ task[p].found) => OwnOutcome(p))

C23_Witness ==
    \E a, b \in DOMAIN posts :
        /\ a # b
        /\ task[a].pc = "done" /\ task[b].pc = "done"
        /\ task[a].preset = 1 /\ posts[a].status = "READY"
        /\ posts[a].audio_path = Just(AnonPath(a, 1))
        /\ task[b].preset = 0 /\ posts[b].status = "FAILED"
        /\ posts[b].audio_path = Just(RawPath(b))

\* C24: concurrent anonymizer calls never write to the same file: no path is
\* written by two calls that were in progress at the same time.
C24_ConcurrentWritesDisjoint ==
    \A i, j \in CallIds :
        (i # j /\ j \in acall[i].overlapped)
            => acall[i].written \cap acall[j].written = {}

\* C25: parse_output tries the structured parser first and the line parser
\* only when the response is no JSON; every field the response lacks is the
\* empty string in the result, and the call returns a result without raising.
C25_AbsentFieldsBecomeEmpty ==
    parse.pc = "done"
        => /\ parse.via = "lines" => parse.raw.shape = "text"
           /\ parse.raised = "none"
           /\ \A k \in Keys \ DOMAIN parse.raw.data :
                 ResultField(parse.result, k) = Empty

C27_NeverServesRawUpload ==
    \A p \in PostIds, expired \in BOOLEAN :
        (task[p].preset # 0 /\ get_post_audio(p, expired).code = 200)
            => /\ get_post_audio(p, expired).path # Just(RawPath(p))
               /\ get_post_audio(p, expired).path = task[p].anon_path

\* the users holding an active membership of community c, and those among
\* them whose role is OWNER
ActiveMembers(c) == {u \in CUsers : IsActive(c, u)}
ActiveOwners(c) == {u \in ActiveMembers(c) : members[<<c, u>>].role = "OWNER"}

\* C28: after any sequence of community operations each community that
\* create_community has set up has exactly one active membership with role
\* OWNER, held by the user recorded in community.owner_id.
C28_ExactlyOneOwner ==
    \A c \in DOMAIN communities :
        communities[c].founded => ActiveOwners(c) = {communities[c].owner_id}

\* C29: after any sequence of successful create, join, leave and remove
\* operations the member_count of a community equals the number of its
\* active memberships, and an operation refused by one of its checks changes
\* neither the count nor any membership.
C29_CountMatchesActive ==
    /\ [](\A c \in DOMAIN communities :
            communities[c].founded
                => communities[c].member_count = Cardinality(ActiveMembers(c)))
    /\ [][lastop'.outcome \in {"ValueError", "PermissionError"}
            => (communities' = communities /\ members' = members)]_vars

C29_Witness ==
    \E c \in DOMAIN communities :
        /\ communities[c].founded
        /\ communities[c].member_count = 1
        /\ ActiveMembers(c) = {u \in CUsers : u # communities[c].owner_id}
        /\ lastop = Ended("leave_community", "ok")

\* C30: a user who becomes an active member through join_community holds the
\* role MEMBER immediately afterwards, also when rejoining after leaving or
\* after having been removed.
C30_JoinGivesMember ==
    [][\A c \in CommunityIds, u \in CUsers :
          (join_community(c, u) /\ lastop'.outcome = "ok")
              => (IsActive(c, u)' /\ members'[<<c, u>>].role = "MEMBER")]_vars

====
